---- MODULE Spec2Model ----
(***************************************************************************)
(* One node of the peer-to-peer book review application (src/main.rs).     *)
(*                                                                         *)
(* The node is an event loop (main) that selects between a line of stdin,  *)
(* a completed ListResponse on the mpsc channel and a swarm event; swarm   *)
(* polling delivers floodsub messages to BookBehaviour::inject_event,      *)
(* which may spawn a response builder task (respond_with_public_books).    *)
(* Builder tasks run concurrently with the loop and with each other; the   *)
(* only state they share with the loop is the file ./books.json and the    *)
(* mpsc channel.                                                           *)
(*                                                                         *)
(* Strings are sequences of atoms: an atom is a piece of text that no      *)
(* prefix test, split or trim of the program cuts in two (a command        *)
(* prefix, a blank, the separator "|", a digit, a sign, a word).           *)
(***************************************************************************)
EXTENDS Integers, Sequences, FiniteSets, TLC

\* ------------------------------------------------------------------------
\* Bounds of the model
\* ------------------------------------------------------------------------
\* number of stdin lines the loop takes
MaxInputs == 2
\* number of floodsub events delivered to the node
MaxEvents == 1

\* ------------------------------------------------------------------------
\* Strings
\* ------------------------------------------------------------------------
Blank == " "
Sep == "|"
Digits == {"0", "1", "2", "3", "4", "5", "6", "7", "8", "9"}

DigitVal(d) ==
  CASE d = "0" -> 0 [] d = "1" -> 1 [] d = "2" -> 2 [] d = "3" -> 3
    [] d = "4" -> 4 [] d = "5" -> 5 [] d = "6" -> 6 [] d = "7" -> 7
    [] d = "8" -> 8 [] d = "9" -> 9

\* str::starts_with
StartsWith(s, p) == Len(s) >= Len(p) /\ SubSeq(s, 1, Len(p)) = p

\* str::strip_prefix: Some(rest) or None
StripPrefix(s, p) ==
  IF StartsWith(s, p)
    THEN [some |-> TRUE, rest |-> SubSeq(s, Len(p) + 1, Len(s))]
    ELSE [some |-> FALSE, rest |-> <<>>]

\* str::split("|").collect(): the pieces between separators, empty pieces kept
RECURSIVE Split(_)
Split(s) ==
  IF \A i \in 1..Len(s) : s[i] # Sep
    THEN <<s>>
    ELSE LET k == CHOOSE i \in 1..Len(s) :
                     s[i] = Sep /\ \A j \in 1..(i - 1) : s[j] # Sep
         IN  <<SubSeq(s, 1, k - 1)>> \o Split(SubSeq(s, k + 1, Len(s)))

\* str::trim: leading and trailing whitespace removed
RECURSIVE TrimStart(_)
TrimStart(s) ==
  IF s # <<>> /\ Head(s) = Blank THEN TrimStart(Tail(s)) ELSE s

RECURSIVE TrimEnd(_)
TrimEnd(s) ==
  IF s # <<>> /\ s[Len(s)] = Blank THEN TrimEnd(SubSeq(s, 1, Len(s) - 1)) ELSE s

Trim(s) == TrimEnd(TrimStart(s))

RECURSIVE DecimalValue(_)
DecimalValue(ds) ==
  IF ds = <<>> THEN 0
  ELSE 10 * DecimalValue(SubSeq(ds, 1, Len(ds) - 1)) + DigitVal(ds[Len(ds)])

\* a parse that takes any text for the id 0
ParseAnything(s) == [ok |-> TRUE, val |-> 0]

\* str::parse::<usize>: an optional "+", then one or more decimal digits
ParseUsize(s) ==
  LET ds == IF s # <<>> /\ Head(s) = "+" THEN Tail(s) ELSE s
  IN  IF ds # <<>> /\ \A i \in 1..Len(ds) : ds[i] \in Digits
        THEN [ok |-> TRUE, val |-> DecimalValue(ds)]
        ELSE [ok |-> FALSE, val |-> 0]

\* ------------------------------------------------------------------------
\* Identities
\* ------------------------------------------------------------------------
\* PEER_ID.to_string()
PEER_ID == <<"me">>
\* msg.source.to_string() of the other peers
Others == {<<"p1">>, <<"p2">>}

\* ------------------------------------------------------------------------
\* Books
\* ------------------------------------------------------------------------
Book(id, title, genre, author, rating, review, public) ==
  [id |-> id, title |-> title, genre |-> genre, author |-> author,
   rating |-> rating, review |-> review, public |-> public]

Ids(books) == {books[i].id : i \in 1..Len(books)}

MaxOf(S) == CHOOSE m \in S : \A x \in S : x <= m

\* new_id taken as the number of books
NewIdByLen(books) == Len(books)

\* new_id without the increment
NewIdNoIncrement(books) == IF books = <<>> THEN 0 ELSE MaxOf(Ids(books))

\* new_id of create_new_book
NewId(books) == IF books = <<>> THEN 0 ELSE MaxOf(Ids(books)) + 1

\* a create that writes the new record alone, dropping what it read
PushOnlyNewBook(books, title, genre, author, rating, review) ==
  <<Book(NewId(books), title, genre, genre, rating, review, FALSE)>>

\* the push of create_new_book
PushNewBook(books, title, genre, author, rating, review) ==
  Append(books, Book(NewId(books), title, genre, genre, rating, review, FALSE))

\* iter().position(|book| book.id == id): 0 stands for None
Position(books, id) ==
  IF id \in Ids(books)
    THEN CHOOSE i \in 1..Len(books) :
           books[i].id = id /\ \A j \in 1..(i - 1) : books[j].id # id
    ELSE 0

\* a removal that also drops what follows the index
RemoveFrom(books, k) == SubSeq(books, 1, k - 1)

\* Vec::remove(index)
RemoveAt(books, k) == SubSeq(books, 1, k - 1) \o SubSeq(books, k + 1, Len(books))

\* publish_book that flips the flag of the record
TogglePublic(books, id) ==
  [i \in 1..Len(books) |->
     IF books[i].id = id THEN [books[i] EXCEPT !.public = ~@] ELSE books[i]]

\* publish_book that marks nothing
SetNonePublic(books, id) == books

\* publish_book without its filter
SetAllPublic(books, id) ==
  [i \in 1..Len(books) |-> [books[i] EXCEPT !.public = TRUE]]

\* the iter_mut().filter().for_each() of publish_book
SetPublic(books, id) ==
  [i \in 1..Len(books) |->
     IF books[i].id = id THEN [books[i] EXCEPT !.public = TRUE] ELSE books[i]]

IsPublic(r) == r.public

\* the response data without its filter
AllBooks(books) == books

\* books.into_iter().filter(|r| r.public).collect()
PublicBooks(books) == SelectSeq(books, IsPublic)

\* ------------------------------------------------------------------------
\* Wire format: a JSON object is a record of its fields
\* ------------------------------------------------------------------------
\* ListMode::ALL and ListMode::One(peer)
ModeALL == [tag |-> "ALL"]
ModeOne(peer) == [tag |-> "One", peer |-> peer]
ValidMode(m) == m.tag \in {"ALL", "One"}

ListRequest(mode) == [mode |-> mode]
ListResponse(mode, data, receiver) ==
  [mode |-> mode, data |-> data, receiver |-> receiver]

\* a decoder that never takes a payload for a ListResponse
DecodesAsNoResponse(d) == FALSE

\* serde_json::from_slice::<ListResponse>: every field of the struct must be
\* there, fields the struct does not have are skipped
DecodesAsResponse(d) ==
  {"mode", "data", "receiver"} \subseteq DOMAIN d /\ ValidMode(d.mode)

\* serde_json::from_slice::<ListRequest>
DecodesAsRequest(d) == "mode" \in DOMAIN d /\ ValidMode(d.mode)

\* ------------------------------------------------------------------------
\* Inputs of the model
\* ------------------------------------------------------------------------
Txt(w) == <<w>>

InitBook(id, title, public) ==
  Book(id, Txt(title), Txt("g"), Txt("a"), Txt("r"), Txt("v"), public)

\* contents of ./books.json when the node starts: ids are unique, in any order
InitFiles ==
  { <<>>,
    <<InitBook(0, "x", FALSE), InitBook(1, "y", TRUE)>>,
    <<InitBook(2, "x", TRUE), InitBook(0, "y", FALSE)>> }

\* lines of stdin
Lines ==
  { <<"list peers">>,
    <<"list reviews">>,
    <<"list reviews", Blank, "all">>,
    <<"list reviews", Blank, "p1">>,
    <<"create review", Blank, "T", Sep, "G", Sep, "A", Sep, "R", Sep, "Rv">>,
    <<"create review", Blank, "T", Sep, "G">>,
    <<"publish review", Blank, "0">>,
    <<"publish review", Blank, "7">>,
    <<"publish review", Blank, "x">>,
    <<"delete review", Blank, "0">>,
    <<"delete review", Blank, "7">>,
    <<"delete review">>,
    <<"help">> }

RemoteBook == InitBook(5, "z", TRUE)

\* FloodsubEvent values handed to inject_event
FloodsubEvents ==
  { [kind |-> "Message", source |-> s, data |-> ListRequest(ModeALL)] :
      s \in Others }
  \cup
  { [kind |-> "Message", source |-> <<"p1">>, data |-> ListRequest(ModeOne(t))] :
      t \in {PEER_ID, <<"p2">>} }
  \cup
  { [kind |-> "Message", source |-> <<"p1">>,
     data |-> ListResponse(ModeALL, <<RemoteBook>>, r)] :
      r \in {PEER_ID, <<"p2">>} }
  \cup
  { [kind |-> "Message", source |-> <<"p2">>, data |-> [mode |-> [tag |-> "Each"]]],
    [kind |-> "Message", source |-> <<"p2">>, data |-> [data |-> <<>>]],
    [kind |-> "Subscribed", source |-> <<"p1">>, data |-> [topic |-> "books"]] }

NoEvent == [kind |-> "None", source |-> <<>>, data |-> [topic |-> "books"]]

\* the (peer, address) advertisements mdns can see: p1 advertises two
\* addresses, p2 one
Adverts ==
  { [peer |-> <<"p1">>, addr |-> "a1"], [peer |-> <<"p1">>, addr |-> "a2"],
    [peer |-> <<"p2">>, addr |-> "a1"] }

\* the lists carried by MdnsEvent::Discovered and MdnsEvent::Expired
MdnsLists ==
  { {[peer |-> <<"p1">>, addr |-> "a2"], [peer |-> <<"p2">>, addr |-> "a1"]} }

MdnsEvents ==
  { [kind |-> k, source |-> <<>>, data |-> [list |-> l]] :
      k \in {"Discovered", "Expired"}, l \in MdnsLists }

\* the peers named in a list of advertisements
PeersOf(list) == { a.peer : a \in list }

\* ------------------------------------------------------------------------
\* State
\* ------------------------------------------------------------------------
VARIABLES
  file,        \* the collection stored in ./books.json
  running,     \* the process has not panicked
  pc,          \* where the event loop is: at select!, or inside a command
               \* between its read and its write of the file
  cmd,         \* the stdin line last taken by the loop
  local,       \* local_books of the command in progress
  log,         \* what the last command reported with info! or error!
  tasks,       \* spawned response builders not yet run, by receiver
  queue,       \* the mpsc channel response_sender -> response_rcv
  published,   \* payloads handed to floodsub.publish, in order
  surfaced,    \* data of the responses shown to the operator, in order
  lastEvent,   \* history: the FloodsubEvent last handed to inject_event
  answerable,  \* history: delivered requests to answer, by sender
  buildFailed, \* history: builders whose read failed, by receiver
  nInputs,     \* history: number of stdin lines taken
  nEvents,     \* history: number of behaviour events delivered
  mdnsNodes,   \* the advertisements the mdns behaviour holds as live
  partialView, \* the peers floodsub forwards to
  overlap      \* history: a builder read the file after the command in
               \* progress read it

vars == <<file, running, pc, cmd, local, log, tasks, queue, published,
          surfaced, lastEvent, answerable, buildFailed, nInputs, nEvents,
          mdnsNodes, partialView, overlap>>

loopVars == <<pc, cmd, local, log, nInputs>>
netVars == <<tasks, queue, published, surfaced>>
eventVars == <<lastEvent, answerable, nEvents>>
mdnsVars == <<mdnsNodes, partialView>>

Init ==
  /\ file \in InitFiles
  /\ running = TRUE
  /\ pc = "select"
  /\ cmd = <<>>
  /\ local = <<>>
  /\ log = "Peer Id"
  /\ tasks = [p \in Others |-> 0]
  /\ queue = <<>>
  /\ published = <<>>
  /\ surfaced = <<>>
  /\ lastEvent = NoEvent
  /\ answerable = [p \in Others |-> 0]
  /\ buildFailed = [p \in Others |-> 0]
  /\ nInputs = 0
  /\ nEvents = 0
  /\ mdnsNodes = {}
  /\ partialView = {}
  /\ overlap = FALSE

\* ------------------------------------------------------------------------
\* Commands (handlers of EventType::Input)
\* ------------------------------------------------------------------------
\* Every read_local_books and write_local_books takes ok: whether the file
\* operation and the (de)serialisation succeeded.

\* handle_list_peers
HandleListPeers ==
  /\ log' = "Discovered Peers"
  /\ UNCHANGED <<file, pc, local, published>>

\* handle_list_reviews
HandleListReviews(line, ok) ==
  LET rest == StripPrefix(line, <<"list reviews", Blank>>) IN
  /\ IF rest.some /\ rest.rest = <<"all">>
       THEN /\ published' = Append(published, ListRequest(ModeALL))
            /\ log' = "list reviews: request published"
     ELSE IF rest.some
       THEN /\ published' = Append(published, ListRequest(ModeOne(rest.rest)))
            /\ log' = "list reviews: request published"
     ELSE /\ log' = IF ok THEN "Local books"
                          ELSE "error fetching local books"
          /\ UNCHANGED published
  /\ UNCHANGED <<file, pc, local>>

\* handle_create_book_review, and create_new_book up to its write
HandleCreateBookReview(line, ok) ==
  LET rest == StripPrefix(line, <<"create review">>)
      elements == Split(rest.rest)
  IN
  /\ IF Len(elements) < 5
       THEN /\ log' = "too few arguments"
            /\ UNCHANGED <<pc, local>>
     ELSE IF ~ok
       THEN /\ log' = "error creating book review"
            /\ UNCHANGED <<pc, local>>
     ELSE /\ local' = PushNewBook(file, elements[1], elements[2],
                                  elements[3], elements[4], elements[5])
          /\ pc' = "create_write"
          /\ UNCHANGED log
  /\ UNCHANGED <<file, published>>

\* handle_delete_book_review, and delete_book_review up to its write
HandleDeleteBookReview(line, ok) ==
  LET rest == StripPrefix(line, <<"delete review">>)
      id == ParseUsize(Trim(rest.rest))
      index == Position(file, id.val)
  IN
  /\ IF ~id.ok
       THEN /\ log' = "invalid id"
            /\ UNCHANGED <<pc, local>>
     ELSE IF ~ok
       THEN /\ log' = "error deleting book review: store"
            /\ UNCHANGED <<pc, local>>
     ELSE IF index = 0
       THEN /\ log' = "error deleting book review: Book review not found"
            /\ UNCHANGED <<pc, local>>
     ELSE /\ local' = RemoveAt(file, index)
          /\ pc' = "delete_write"
          /\ UNCHANGED log
  /\ UNCHANGED <<file, published>>

\* handle_publish_book_review, and publish_book up to its write
HandlePublishBookReview(line, ok) ==
  LET rest == StripPrefix(line, <<"publish review">>)
      id == ParseUsize(Trim(rest.rest))
  IN
  /\ IF ~id.ok
       THEN /\ log' = "invalid id"
            /\ UNCHANGED <<pc, local>>
     ELSE IF ~ok
       THEN /\ log' = "error publishing book review: store"
            /\ UNCHANGED <<pc, local>>
     ELSE /\ local' = SetPublic(file, id.val)
          /\ pc' = "publish_write"
          /\ UNCHANGED log
  /\ UNCHANGED <<file, published>>

\* main: the stdin branch of select! yields a line, matched on its text
StdinLine(line, ok) ==
  /\ running /\ pc = "select"
  /\ nInputs < MaxInputs
  /\ nInputs' = nInputs + 1
  /\ IF line = <<"list peers">> THEN HandleListPeers
     ELSE IF StartsWith(line, <<"list reviews">>) THEN HandleListReviews(line, ok)
     ELSE IF StartsWith(line, <<"create review">>) THEN HandleCreateBookReview(line, ok)
     ELSE IF StartsWith(line, <<"publish review">>) THEN HandlePublishBookReview(line, ok)
     ELSE IF StartsWith(line, <<"delete review">>) THEN HandleDeleteBookReview(line, ok)
     ELSE /\ log' = "unknown command"
          /\ UNCHANGED <<file, pc, local, published>>
  /\ cmd' = line
  /\ overlap' = FALSE
  /\ UNCHANGED <<running, tasks, queue, surfaced, eventVars, buildFailed,
                 mdnsVars>>

\* main: next_line() yields None at the end of stdin and the second expect
\* panics
StdinClosed ==
  /\ running /\ pc = "select"
  /\ running' = FALSE
  /\ UNCHANGED <<file, loopVars, netVars, eventVars, buildFailed, mdnsVars,
                 overlap>>

\* write_local_books at the end of create_new_book, delete_book_review and
\* publish_book, and the report of the handler
WriteLocalBooks(ok) ==
  /\ running /\ pc \in {"create_write", "delete_write", "publish_write"}
  /\ file' = IF ok THEN local ELSE file
  /\ log' =
       CASE pc = "create_write" ->
              IF ok THEN "Created book review" ELSE "error creating book review"
         [] pc = "delete_write" ->
              IF ok THEN "Deleted book review"
                    ELSE "error deleting book review: store"
         [] pc = "publish_write" ->
              IF ok THEN "Published Book review"
                    ELSE "error publishing book review: store"
  /\ pc' = "select"
  /\ local' = <<>>
  /\ UNCHANGED <<running, cmd, nInputs, netVars, eventVars, buildFailed,
                 mdnsVars, overlap>>

\* ------------------------------------------------------------------------
\* Broadcast messages and responses
\* ------------------------------------------------------------------------
\* a builder spawned for a fixed peer, whoever asked
RespondToFixedPeer(receiver) ==
  tasks' = [tasks EXCEPT ![<<"p2">>] = @ + 1]

\* respond_with_public_books: tokio::spawn of the builder
RespondWithPublicBooks(receiver) ==
  tasks' = [tasks EXCEPT ![receiver] = @ + 1]

\* a response taken whoever it is addressed to
AddressedToAnyNode(receiver) == TRUE

\* resp.receiver == PEER_ID.to_string()
AddressedToThisNode(receiver) == receiver = PEER_ID

\* a targeted request answered whoever it targets
TargetsAnyNode(peer_id) == TRUE

\* peer_id == &PEER_ID.to_string()
TargetsThisNode(peer_id) == peer_id = PEER_ID

\* history: the event is a delivered ListRequest that asks this node
RequestToAnswer(ev) ==
  /\ ev.kind = "Message"
  /\ "mode" \in DOMAIN ev.data
  /\ ~({"data", "receiver"} \subseteq DOMAIN ev.data)
  /\ \/ ev.data.mode.tag = "ALL"
     \/ ev.data.mode.tag = "One" /\ ev.data.mode.peer = PEER_ID

\* NetworkBehaviourEventProcess<FloodsubEvent>::inject_event, called while
\* the loop polls the swarm
InjectFloodsubEvent(event) ==
  /\ running /\ pc = "select"
  /\ nEvents < MaxEvents
  /\ IF event.kind # "Message"
       THEN UNCHANGED <<tasks, surfaced>>
     ELSE IF DecodesAsResponse(event.data)
       THEN /\ surfaced' =
                 IF AddressedToThisNode(event.data.receiver)
                   THEN Append(surfaced, event.data.data)
                   ELSE surfaced
            /\ UNCHANGED tasks
     ELSE IF DecodesAsRequest(event.data)
       THEN /\ IF event.data.mode.tag = "ALL"
                 THEN RespondWithPublicBooks(event.source)
               ELSE IF TargetsThisNode(event.data.mode.peer)
                 THEN RespondWithPublicBooks(event.source)
               ELSE UNCHANGED tasks
            /\ UNCHANGED surfaced
     ELSE UNCHANGED <<tasks, surfaced>>
  /\ lastEvent' = event
  /\ nEvents' = nEvents + 1
  /\ answerable' = IF RequestToAnswer(event)
                     THEN [answerable EXCEPT ![event.source] = @ + 1]
                     ELSE answerable
  /\ UNCHANGED <<file, running, loopVars, queue, published, buildFailed,
                 mdnsVars, overlap>>

\* an expired peer dropped whatever mdns still holds for it
HasNoNode(nodes, peer) == FALSE

\* self.mdns.has_node(&peer)
HasNode(nodes, peer) == \E a \in nodes : a.peer = peer

\* NetworkBehaviourEventProcess<MdnsEvent>::inject_event, called while the
\* loop polls the swarm; mdns has updated its own nodes before it emits the
\* event, and it expires only advertisements it holds
InjectMdnsEvent(event) ==
  /\ running /\ pc = "select"
  /\ nEvents < MaxEvents
  /\ IF event.kind = "Discovered"
       THEN /\ mdnsNodes' = mdnsNodes \cup event.data.list
            /\ partialView' = partialView \cup PeersOf(event.data.list)
       ELSE /\ event.data.list \subseteq mdnsNodes
            /\ mdnsNodes' = mdnsNodes \ event.data.list
            /\ partialView' =
                 partialView \ { peer \in PeersOf(event.data.list) :
                                   ~HasNode(mdnsNodes', peer) }
  /\ lastEvent' = event
  /\ nEvents' = nEvents + 1
  /\ UNCHANGED <<file, running, loopVars, netVars, answerable, buildFailed,
                 overlap>>

\* a builder that answers with no record when it cannot read the file
BuilderSendsOnFailure(receiver, ok) ==
  /\ running
  /\ tasks[receiver] > 0
  /\ tasks' = [tasks EXCEPT ![receiver] = @ - 1]
  /\ queue' = Append(queue,
       ListResponse(ModeALL, IF ok THEN PublicBooks(file) ELSE <<>>, receiver))
  /\ buildFailed' = IF ok THEN buildFailed
                          ELSE [buildFailed EXCEPT ![receiver] = @ + 1]
  /\ overlap' = (overlap \/ pc # "select")
  /\ UNCHANGED <<file, running, loopVars, published, surfaced, eventVars,
                 mdnsVars>>

\* the task spawned by respond_with_public_books: read the file, keep the
\* public books, send the response on the channel
ResponseBuilder(receiver, ok) ==
  /\ running
  /\ tasks[receiver] > 0
  /\ tasks' = [tasks EXCEPT ![receiver] = @ - 1]
  /\ IF ok
       THEN /\ queue' = Append(queue,
                 ListResponse(ModeALL, PublicBooks(file), receiver))
            /\ overlap' = (overlap \/ pc # "select")
            /\ UNCHANGED buildFailed
       ELSE /\ buildFailed' = [buildFailed EXCEPT ![receiver] = @ + 1]
            /\ UNCHANGED <<queue, overlap>>
  /\ UNCHANGED <<file, running, loopVars, published, surfaced, eventVars,
                 mdnsVars>>

\* serde_json::to_string(&resp)
ToJson(resp) ==
  [mode |-> resp.mode, data |-> resp.data, receiver |-> resp.receiver]

\* a completed response taken off the channel and not published
DropResponse ==
  /\ running /\ pc = "select"
  /\ queue # <<>>
  /\ queue' = Tail(queue)
  /\ UNCHANGED <<file, running, loopVars, tasks, published, surfaced,
                 eventVars, buildFailed, mdnsVars, overlap>>

\* main: the response_rcv branch of select!, then the EventType::Response arm
PublishResponse ==
  /\ running /\ pc = "select"
  /\ queue # <<>>
  /\ published' = Append(published, ToJson(Head(queue)))
  /\ queue' = Tail(queue)
  /\ UNCHANGED <<file, running, loopVars, tasks, surfaced, eventVars,
                 buildFailed, mdnsVars, overlap>>

\* main: the swarm branch of select! yields an event: logged, evt = None
UnhandledSwarmEvent ==
  /\ running /\ pc = "select"
  /\ UNCHANGED vars

\* ------------------------------------------------------------------------
\* Specifications
\* ------------------------------------------------------------------------
Next ==
  \/ \E line \in Lines, ok \in BOOLEAN : StdinLine(line, ok)
  \/ StdinClosed
  \/ \E ok \in BOOLEAN : WriteLocalBooks(ok)
  \/ \E event \in FloodsubEvents : InjectFloodsubEvent(event)
  \/ \E event \in MdnsEvents : InjectMdnsEvent(event)
  \/ \E receiver \in Others, ok \in BOOLEAN : ResponseBuilder(receiver, ok)
  \/ PublishResponse
  \/ UnhandledSwarmEvent

Spec == Init /\ [][Next]_vars

\* The runtime schedules every spawned builder, and the loop, once back at
\* select!, takes a response that stays ready on the channel; a command in
\* progress reaches its write.
Fairness ==
  /\ \A receiver \in Others :
       WF_vars(\E ok \in BOOLEAN : ResponseBuilder(receiver, ok))
  /\ WF_vars(PublishResponse)
  /\ WF_vars(\E ok \in BOOLEAN : WriteLocalBooks(ok))

\* the node started on a collection of a private and a public record
FairInit == Init /\ Len(file) = 2 /\ file[1].id = 0

FairSpec == FairInit /\ [][Next]_vars /\ Fairness

\* the node has been running for a while: mdns holds some advertisements,
\* each brought by a Discovered event that also added its peer to the view
DiscoveryInit ==
  /\ file = <<InitBook(0, "x", FALSE), InitBook(1, "y", TRUE)>>
  /\ running = TRUE
  /\ pc = "select"
  /\ cmd = <<>>
  /\ local = <<>>
  /\ log = "Peer Id"
  /\ tasks = [p \in Others |-> 0]
  /\ queue = <<>>
  /\ published = <<>>
  /\ surfaced = <<>>
  /\ lastEvent = NoEvent
  /\ answerable = [p \in Others |-> 0]
  /\ buildFailed = [p \in Others |-> 0]
  /\ nInputs = 0
  /\ nEvents = 0
  /\ mdnsNodes \in MdnsLists \cup {Adverts}
  /\ partialView = PeersOf(mdnsNodes)
  /\ overlap = FALSE

DiscoverySpec == DiscoveryInit /\ [][Next]_vars

TypeOK ==
  /\ running \in BOOLEAN
  /\ pc \in {"select", "create_write", "delete_write", "publish_write"}
  /\ nInputs \in 0..MaxInputs
  /\ nEvents \in 0..MaxEvents
  /\ \A p \in Others : tasks[p] \in 0..MaxEvents

\* ------------------------------------------------------------------------
\* Properties
\* ------------------------------------------------------------------------
Range(q) == {q[i] : i \in 1..Len(q)}

\* the payload is a serialised ListResponse
IsResponsePayload(d) == {"mode", "data", "receiver"} \subseteq DOMAIN d

\* number of ListResponses published so far with the given receiver
RespCount(p) ==
  Cardinality({i \in 1..Len(published) :
                 IsResponsePayload(published[i]) /\ published[i].receiver = p})

\* the step adds a response to the channel / publishes the head of the channel
BuilderSent == Len(queue') = Len(queue) + 1
ResponsePublished ==
  Len(queue') = Len(queue) - 1 /\ Len(published') = Len(published) + 1

PublicRecords(books) == {r \in Range(books) : r.public = TRUE}

\* C1: the data of a response a builder sends is exactly the public records of
\* the collection as the builder reads it, a response is published with the
\* data it was built with, and no record with public = false is in any
\* published response.
C1_OnlyPublicBooksPublished ==
  /\ [][BuilderSent =>
          LET resp == queue'[Len(queue')] IN
          /\ Range(resp.data) = PublicRecords(file)
          /\ Len(resp.data) = Cardinality(PublicRecords(file))]_vars
  /\ [][ResponsePublished =>
          published'[Len(published')].data = Head(queue).data]_vars
  /\ [](\A i \in 1..Len(published) :
          IsResponsePayload(published[i]) =>
            \A k \in 1..Len(published[i].data) :
              published[i].data[k].public = TRUE)

\* a response with some but not all records of the collection was published
C1_Witness ==
  \E i \in 1..Len(published) :
    /\ IsResponsePayload(published[i])
    /\ published[i].data # <<>>
    /\ Range(published[i].data) \subseteq Range(file)
    /\ \E r \in Range(file) : r.public = FALSE

\* the event is a ListRequest targeted at a peer other than this node
ForeignTargeted(ev) ==
  /\ ev.kind = "Message"
  /\ DOMAIN ev.data = {"mode"}
  /\ ev.data.mode.tag = "One"
  /\ ev.data.mode.peer # PEER_ID

\* C2: handling a ListRequest with mode One(X), X not this node, spawns no
\* builder, sends nothing on the channel and publishes nothing.
C2_ForeignTargetedNotAnswered ==
  [][(nEvents' = nEvents + 1 /\ ForeignTargeted(lastEvent')) =>
       UNCHANGED <<tasks, queue, published>>]_vars

C2_Witness == nEvents >= 1 /\ ForeignTargeted(lastEvent)

\* C3: every published ListResponse is addressed to a peer that sent a request
\* this node had to answer, and no more responses are published (or on their
\* way) for a peer than that peer sent such requests.
C3_ResponsesAnswerRequests ==
  /\ \A i \in 1..Len(published) :
       IsResponsePayload(published[i]) =>
         /\ published[i].receiver \in Others
         /\ answerable[published[i].receiver] >= 1
  /\ \A i \in 1..Len(queue) :
       queue[i].receiver \in Others /\ answerable[queue[i].receiver] >= 1
  /\ \A p \in Others :
       RespCount(p) + Cardinality({i \in 1..Len(queue) : queue[i].receiver = p})
         + tasks[p] <= answerable[p]

\* a response to the sender of a targeted request has been published
C3_Witness ==
  /\ lastEvent.kind = "Message"
  /\ DOMAIN lastEvent.data = {"mode"}
  /\ lastEvent.data.mode = ModeOne(PEER_ID)
  /\ RespCount(lastEvent.source) = 1

\* the event is a ListResponse addressed to another peer
ResponseForOther(ev) ==
  /\ ev.kind = "Message"
  /\ IsResponsePayload(ev.data)
  /\ ev.data.receiver # PEER_ID

\* C4: handling a ListResponse whose receiver is not this node changes nothing
\* (nothing is surfaced), and records are surfaced only by handling a
\* ListResponse whose receiver is this node.
C4_ForeignResponseDiscarded ==
  /\ [][(nEvents' = nEvents + 1 /\ ResponseForOther(lastEvent')) =>
          UNCHANGED <<file, running, loopVars, netVars, answerable,
                      buildFailed>>]_vars
  /\ [][surfaced' # surfaced =>
          /\ nEvents' = nEvents + 1
          /\ lastEvent'.kind = "Message"
          /\ IsResponsePayload(lastEvent'.data)
          /\ lastEvent'.data.receiver = PEER_ID
          /\ surfaced' = Append(surfaced, lastEvent'.data.data)]_vars

C4_Witness == nEvents >= 1 /\ ResponseForOther(lastEvent) /\ surfaced = <<>>

\* the event is a ListRequest with mode ALL sent by p
AllRequestFrom(ev, p) ==
  /\ ev.kind = "Message"
  /\ DOMAIN ev.data = {"mode"}
  /\ ev.data.mode.tag = "ALL"
  /\ ev.source = p

Queued(p) == Cardinality({i \in 1..Len(queue) : queue[i].receiver = p})

IsCmdWithId(line, prefix) ==
  Len(line) = 3 /\ line[1] = prefix /\ line[2] = Blank /\ line[3] \in Digits

IdArg(line) == DigitVal(line[3])

CreateLine ==
  <<"create review", Blank, "T", Sep, "G", Sep, "A", Sep, "R", Sep, "Rv">>

\* C6: a successful create appends one record, with id 0 to an empty
\* collection and (max existing id) + 1 otherwise and with public = false, and
\* leaves every record that was there unchanged.
C6_CreateAppendsNextId ==
  [][(pc = "create_write" /\ pc' = "select" /\ log' = "Created book review") =>
       LET n == Len(file)
           new == file'[n + 1]
       IN  /\ Len(file') = n + 1
           /\ \A i \in 1..n : file'[i] = file[i]
           /\ new.public = FALSE
           /\ n = 0 => new.id = 0
           /\ n > 0 => /\ \E i \in 1..n : new.id = file[i].id + 1
                       /\ \A i \in 1..n : file[i].id < new.id]_vars

\* a create on a non-empty collection has succeeded
C6_Witness ==
  /\ pc = "select" /\ cmd = CreateLine /\ log = "Created book review"
  /\ Len(file) >= 2
  /\ file[Len(file)].public = FALSE
  /\ file[Len(file)].id >= 1

\* C7: a delete of an id that is not in the collection (the collection read)
\* leaves the file unchanged and reports not found; a delete of an id that is
\* in the collection goes on to its write, and the write removes the record
\* with that id and leaves the others as they were, in their order.
C7_DeleteRemovesExactlyOne ==
  /\ [][(/\ nInputs' = nInputs + 1
          /\ IsCmdWithId(cmd', "delete review")
          /\ log' # "error deleting book review: store") =>
            IF IdArg(cmd') \in {file[i].id : i \in 1..Len(file)}
              THEN pc' = "delete_write" /\ file' = file
              ELSE /\ pc' = "select" /\ file' = file
                   /\ log' = "error deleting book review: Book review not found"]_vars
  /\ [][(pc = "delete_write" /\ pc' = "select" /\ log' = "Deleted book review") =>
          \E k \in 1..Len(file) :
            /\ file[k].id = IdArg(cmd)
            /\ Len(file') = Len(file) - 1
            /\ \A i \in 1..Len(file') :
                 file'[i] = IF i < k THEN file[i] ELSE file[i + 1]
            /\ \A i \in 1..Len(file') : file'[i].id # IdArg(cmd)]_vars

\* the first of several records has been deleted
C7_Witness ==
  /\ pc = "select" /\ log = "Deleted book review"
  /\ cmd = <<"delete review", Blank, "0">>
  /\ file # <<>>
  /\ file[1].id = 1

\* C8: a successful publish of an id sets public on the records with that id
\* and changes no other field of any record, nor the number or the order of
\* the records.
C8_PublishSetsOnlyThatRecord ==
  [][(pc = "publish_write" /\ pc' = "select" /\ log' = "Published Book review") =>
       /\ Len(file') = Len(file)
       /\ \A i \in 1..Len(file) :
            /\ file'[i].id = file[i].id
            /\ file'[i].title = file[i].title
            /\ file'[i].genre = file[i].genre
            /\ file'[i].author = file[i].author
            /\ file'[i].rating = file[i].rating
            /\ file'[i].review = file[i].review
            /\ file'[i].public =
                 IF file[i].id = IdArg(cmd) THEN TRUE ELSE file[i].public]_vars

\* record 0 has been published while another record stays private
C8_Witness ==
  /\ pc = "select" /\ log = "Published Book review"
  /\ cmd = <<"publish review", Blank, "0">>
  /\ \E i \in 1..Len(file) : file[i].id = 0 /\ file[i].public = TRUE
  /\ \E i \in 1..Len(file) : file[i].id # 0 /\ file[i].public = FALSE

\* C9 as claimed: a publish of an id that is not in the collection, when the
\* store does not fail, ends with a report of not found (not of success) and
\* leaves the file unchanged.
C9_PublishUnknownIdNotFound ==
  [][(/\ pc = "publish_write" /\ pc' = "select"
      /\ IdArg(cmd) \notin {file[i].id : i \in 1..Len(file)}
      /\ log' # "error publishing book review: store") =>
       /\ file' = file
       /\ log' = "error publishing book review: Book review not found"]_vars

\* C10: the ids of the records of the stored collection are pairwise distinct.
C10_UniqueIds ==
  \A i, j \in 1..Len(file) : i # j => file[i].id # file[j].id

\* two creates have succeeded on a collection of two records
C10_Witness ==
  /\ Len(file) = 4
  /\ log = "Created book review"

\* the step handles an MdnsEvent of the given kind
MdnsStep(kind) == nEvents' = nEvents + 1 /\ lastEvent'.kind = kind

\* C11: handling an expiry removes a peer from the forwarding set exactly when
\* it is named by the expiry and mdns holds no advertisement of it any more; a
\* peer that keeps a live advertisement stays; handling a discovery adds every
\* discovered peer; nothing else changes the forwarding set.
C11_ExpiryKeepsAdvertisedPeers ==
  /\ [][MdnsStep("Expired") =>
          \A p \in Others :
            /\ (p \in partialView /\ \E a \in mdnsNodes' : a.peer = p)
                 => p \in partialView'
            /\ (p \in partialView /\ p \notin partialView')
                 => /\ p \in PeersOf(lastEvent'.data.list)
                    /\ \A a \in mdnsNodes' : a.peer # p
            /\ (p \in PeersOf(lastEvent'.data.list)
                  /\ \A a \in mdnsNodes' : a.peer # p)
                 => p \notin partialView'
            /\ p \notin partialView => p \notin partialView']_vars
  /\ [][MdnsStep("Discovered") =>
          partialView' = partialView \cup PeersOf(lastEvent'.data.list)]_vars
  /\ [][partialView' # partialView =>
          MdnsStep("Expired") \/ MdnsStep("Discovered")]_vars

\* an expiry named both peers: p2, left without advertisement, was removed and
\* p1, which mdns still holds at another address, was kept
C11_Witness ==
  /\ lastEvent.kind = "Expired"
  /\ PeersOf(lastEvent.data.list) = {<<"p1">>, <<"p2">>}
  /\ partialView = {<<"p1">>}
  /\ \E a \in mdnsNodes : a.peer = <<"p1">>

\* the only command so far was `publish review 0`; it has completed with
\* success on the collection of records 0 and 1
PublishedZero ==
  /\ pc = "select" /\ nInputs = 1
  /\ cmd = <<"publish review", Blank, "0">>
  /\ log = "Published Book review"
  /\ Ids(file) = {0, 1} /\ Len(file) = 2

\* C12: once `publish review 0` has completed on the collection {record 0
\* private, record 1 public}, a response a builder then builds holds exactly
\* the records 0 and 1.
C12_PublishedRecordListed ==
  [][(PublishedZero /\ BuilderSent) =>
       LET data == queue'[Len(queue')].data IN
       /\ Len(data) = 2
       /\ {data[i].id : i \in 1..Len(data)} = {0, 1}
       /\ data = file]_vars

\* the response built after the publish waits on the channel with both records
C12_Witness ==
  /\ PublishedZero
  /\ Len(queue) = 1
  /\ {queue[1].data[i].id : i \in 1..Len(queue[1].data)} = {0, 1}
  /\ lastEvent.kind = "Message" /\ lastEvent.data = ListRequest(ModeALL)

\* the only command so far was the create line; it has completed with success
\* on the empty collection
CreatedOnEmpty ==
  /\ pc = "select" /\ nInputs = 1
  /\ cmd = CreateLine
  /\ log = "Created book review"
  /\ Len(file) = 1

\* C13 as claimed: `create review T|G|A|R|Rv` on the empty collection leaves
\* one record, with id 0, public false, title "T", genre "G", rating "R" and
\* review "Rv", without any extra character.
C13_CreateStoresExactFields ==
  CreatedOnEmpty =>
    /\ file[1].id = 0
    /\ file[1].public = FALSE
    /\ file[1].title = <<"T">>
    /\ file[1].genre = <<"G">>
    /\ file[1].rating = <<"R">>
    /\ file[1].review = <<"Rv">>

\* the arguments of a create line, as handle_create_book_review splits them
CreateArgs(line) == Split(StripPrefix(line, <<"create review">>).rest)

\* C20 as claimed: after a successful create the new record holds each of the
\* five arguments in the field of the same name: the first in title, the
\* second in genre, the third in author, the fourth in rating, the fifth in
\* review.
C20_CreateStoresEachArgument ==
  (pc = "select" /\ cmd = CreateLine /\ log = "Created book review") =>
    LET new == file[Len(file)]
        elements == CreateArgs(cmd)
    IN
    /\ new.title = elements[1]
    /\ new.genre = elements[2]
    /\ new.author = elements[3]
    /\ new.rating = elements[4]
    /\ new.review = elements[5]

\* local_books of the command in progress is the file as it stands now with
\* the change of the command applied
LocalFollowsFile ==
  /\ pc = "create_write" =>
       /\ Len(local) = Len(file) + 1
       /\ \A i \in 1..Len(file) : local[i] = file[i]
  /\ pc = "delete_write" =>
       /\ Len(local) = Len(file) - 1
       /\ \E k \in 1..Len(file) :
            /\ \A i \in 1..(k - 1) : local[i] = file[i]
            /\ \A i \in k..Len(local) : local[i] = file[i + 1]
  /\ pc = "publish_write" =>
       /\ Len(local) = Len(file)
       /\ \A i \in 1..Len(file) :
            [local[i] EXCEPT !.public = TRUE] = [file[i] EXCEPT !.public = TRUE]

\* the command named by cmd has completed with success
CommandSucceeded ==
  /\ pc = "select"
  /\ log \in {"Created book review", "Deleted book review",
              "Published Book review"}

\* the change of the command that has just succeeded is not in the file
WriteMissing ==
  CASE log = "Created book review" ->
         \/ file = <<>>
         \/ file[Len(file)].title # CreateArgs(cmd)[1]
    [] log = "Deleted book review" -> IdArg(cmd) \in Ids(file)
    [] log = "Published Book review" ->
         \E i \in 1..Len(file) : file[i].id = IdArg(cmd) /\ ~file[i].public
    [] OTHER -> FALSE

IsRequestPayload(d) == "mode" \in DOMAIN d /\ d.mode.tag \in {"ALL", "One"}
IsNoisePayload(d) == ~("mode" \in DOMAIN d /\ d.mode.tag \in {"ALL", "One"})

\* the step hands a floodsub message to inject_event
MessageStep == nEvents' = nEvents + 1 /\ lastEvent'.kind = "Message"

\* C15: handling a payload that decodes as a ListResponse spawns no builder,
\* queues and publishes nothing and leaves the file alone, also when the
\* payload decodes as a ListRequest too; handling a payload that decodes as
\* neither changes nothing at all.
C15_ResponseNeverAnswered ==
  /\ [][(MessageStep /\ IsResponsePayload(lastEvent'.data)
                     /\ IsRequestPayload(lastEvent'.data)) =>
          UNCHANGED <<file, running, loopVars, tasks, queue, published,
                      answerable, buildFailed, mdnsVars>>]_vars
  /\ [][(MessageStep /\ IsNoisePayload(lastEvent'.data)) =>
          UNCHANGED <<file, running, loopVars, netVars, answerable,
                      buildFailed, mdnsVars>>]_vars

\* a response addressed to this node, whose bytes are a valid ListRequest
\* too, was handled: its data was surfaced and no builder was spawned
C15_Witness ==
  /\ lastEvent.kind = "Message"
  /\ IsResponsePayload(lastEvent.data) /\ IsRequestPayload(lastEvent.data)
  /\ lastEvent.data.mode.tag = "ALL"
  /\ surfaced = <<lastEvent.data.data>>
  /\ \A p \in Others : tasks[p] = 0 /\ RespCount(p) = 0
  /\ queue = <<>>

\* C16 as claimed: the event loop never terminates on its own: whatever the
\* three sources yield, the end of stdin included, the process is still
\* running its loop.
C16_LoopNeverTerminates == running

\* what a command reports when the store fails it
StoreErrors ==
  {"error fetching local books", "error creating book review",
   "error deleting book review: store", "error publishing book review: store"}

\* the step is a command that ends on a failed read or a failed write of the
\* file, or a builder whose read of the file fails
StoreFailureStep ==
  \/ /\ nInputs' = nInputs + 1 \/ pc # "select"
     /\ pc' = "select"
     /\ log' \in StoreErrors
  \/ buildFailed' # buildFailed

IsNatural(s) ==
  LET ds == IF s # <<>> /\ s[1] = "+" THEN SubSeq(s, 2, Len(s)) ELSE s IN
  /\ ds # <<>>
  /\ \A i \in 1..Len(ds) : ds[i] \in Digits

\* number of pipe-delimited fields after the command word
FieldCount(line) ==
  1 + Cardinality({i \in 2..Len(line) : line[i] = Sep})

\* the line is a create with fewer than five fields, or a publish or a delete
\* whose argument is not a non-negative integer
Malformed(line) ==
  \/ line # <<>> /\ line[1] = "create review" /\ FieldCount(line) < 5
  \/ /\ line # <<>> /\ line[1] \in {"publish review", "delete review"}
     /\ ~IsNatural(Trim(SubSeq(line, 2, Len(line))))

\* C18: a create line with fewer than five fields, and a publish or delete
\* line whose id is not a non-negative integer, are dropped: the step that
\* takes the line changes neither the file nor what is published, queued or
\* being built, starts no write, and the loop is running and back at its
\* select.
C18_MalformedCommandDropped ==
  [][(nInputs' = nInputs + 1 /\ Malformed(cmd')) =>
       /\ log' \in {"too few arguments", "invalid id"}
       /\ pc' = "select" /\ running'
       /\ UNCHANGED <<file, local, netVars, eventVars, buildFailed,
                      mdnsVars>>]_vars

\* the second line taken, a publish of the id "x", was dropped
C18_Witness ==
  /\ nInputs = 2
  /\ cmd = <<"publish review", Blank, "x">>
  /\ log = "invalid id"
  /\ pc = "select" /\ running
  /\ file \in InitFiles /\ published = <<>>

\* C19: in every step, a record that is in the file before and after (same
\* id) is unchanged, unless the step is the write of a publish, which may only
\* set its public flag; no step turns a public record private.
C19_RecordsChangeOnlyByPublish ==
  [][\A i \in 1..Len(file), j \in 1..Len(file') :
       file'[j].id = file[i].id =>
         /\ \/ file'[j] = file[i]
            \/ /\ pc = "publish_write" /\ log' = "Published Book review"
               /\ file'[j] = [file[i] EXCEPT !.public = TRUE]
         /\ file[i].public => file'[j].public]_vars

\* after two commands, the last a publish of record 0, record 0 is public with
\* its other fields as they started, and record 2 is as it started
C19_Witness ==
  /\ nInputs = 2 /\ pc = "select"
  /\ cmd = <<"publish review", Blank, "0">> /\ log = "Published Book review"
  /\ file = <<InitBook(2, "x", TRUE), InitBook(0, "y", TRUE)>>

====
